---- MODULE Spec2Model ----
(***************************************************************************)
(* Model of the local (file-backed) queue of pyqueue_client.PyQueue        *)
(* (src/pyqueue_client/queue_manager.py).                                  *)
(*                                                                         *)
(* The queue file is the variable `store`: the JSON list it holds, a       *)
(* sequence of message dicts.  A dict is a function from its keys to its   *)
(* values, so a key that is missing in Python is missing from DOMAIN here. *)
(* `disk` tells what is on disk: "json" (the file decodes to `store`),      *)
(* "missing", "empty", or "corrupt" (text that does not decode).            *)
(* Timestamps are naturals read from the clock `now`; a receipt handle     *)
(* (uuid4) is the number of handles generated before it, plus one.         *)
(*                                                                         *)
(* Spec      : one caller, every public method is one atomic step.         *)
(* SpecConc  : two callers whose load / truncate / write steps interleave. *)
(* SpecLoop  : two callers making call after call, interleaved likewise.   *)
(* SpecFault : one caller, a file that may be missing, saves that fail.    *)
(* SpecLegacy: one caller, a file with records of the older schema.        *)
(* SpecDemo  : the script of src/test_in_flight_demo.py.                   *)
(***************************************************************************)
EXTENDS Integers, Sequences, FiniteSets, TLC

(* ----------------------------- bounds ---------------------------------- *)
MaxId == 2
MaxBody == 1
MaxTime == 2
MaxTimeout == 1
MaxMessages == 2
MaxHandles == 2
DemoSlack == 2
MaxCalls == 3

(* The numbers of the demo script src/test_in_flight_demo.py. *)
DemoMessages == 5
DemoMaxMessages == 3
DemoTimeout == 30

Ids == 1..MaxId
Bodies == 0..MaxBody
Timeouts == 0..MaxTimeout
MaxArgs == 1..MaxMessages
Handles == 1..MaxHandles
Procs == {1, 2}
(* The lists of ids a caller passes to check_existence. *)
IdLists == {<<>>} \cup {<<a>> : a \in Ids} \cup {<<a, b>> : a \in Ids, b \in Ids}

(* Python's None, as a value no timestamp, count or handle equals. *)
None == -1

VARIABLES store, disk, now, issued, live, pc, op, pending, ret, store0, calls

vars == <<store, disk, now, issued, live, pc, op, pending, ret, store0, calls>>
concVars == <<pc, op, pending, ret, store0, calls>>

(* ----------------------------- dicts ----------------------------------- *)
Has(m, k) == k \in DOMAIN m
Get(m, k, d) == IF k \in DOMAIN m THEN m[k] ELSE d
Put(m, k, v) == [x \in DOMAIN m \cup {k} |-> IF x = k THEN v ELSE m[x]]
Range(s) == {s[i] : i \in DOMAIN s}
Min(a, b) == IF a <= b THEN a ELSE b
IdsOf(q) == {q[i]["id"] : i \in DOMAIN q}
HasId(q, id) == \E i \in DOMAIN q : q[i]["id"] = id
Indices(q) == [i \in 1..Len(q) |-> i]

(* ------------------------- helper methods ------------------------------ *)
(* Mutant: every receipt handle is the same token. *)
GenerateReceiptHandleFixed(used) == 1

GenerateReceiptHandle(used) == used + 1

(* Mutant: the visibility deadline is ignored. *)
IsMessageVisibleAlways(m, t) == TRUE

IsMessageVisible(m, t) ==
    IF ~Has(m, "invisible_until") \/ m["invisible_until"] = None
    THEN TRUE
    ELSE t >= m["invisible_until"]

CleanupOne(m, t) ==
    IF Has(m, "invisible_until") /\ m["invisible_until"] # None
       /\ t >= m["invisible_until"]
    THEN [m EXCEPT !["invisible_until"] = None]
    ELSE m

(* Mutant: the sweep drops the messages whose deadline has passed. *)
CleanupExpiredVisibilityDrop(q, t) ==
    LET InTime(m) == CleanupOne(m, t) = m
    IN  SelectSeq(q, InTime)

CleanupExpiredVisibility(q, t) == [i \in DOMAIN q |-> CleanupOne(q[i], t)]

ReadQueue(file, t) == CleanupExpiredVisibility(file, t)

(* _read_queue on any file: `kind` says whether the file exists, has text   *)
(* and decodes as JSON; only then is `content` the list it holds.           *)
(* Mutant: the records still legible in a damaged file are salvaged. *)
ReadFileSalvage(kind, content, t) == ReadQueue(content, t)

ReadFile(kind, content, t) ==
    IF kind = "json" THEN ReadQueue(content, t) ELSE <<>>

(* Mutant: a record without receive_count is taken as received once. *)
EnsureMessageFieldsOnce(m) ==
    LET m1 == IF Has(m, "receive_count") THEN m ELSE Put(m, "receive_count", 1)
        m2 == IF Has(m1, "first_received_at") THEN m1 ELSE Put(m1, "first_received_at", None)
    IN  IF Has(m2, "invisible_until") THEN m2 ELSE Put(m2, "invisible_until", None)

EnsureMessageFields(m) ==
    LET m1 == IF Has(m, "receive_count") THEN m ELSE Put(m, "receive_count", 0)
        m2 == IF Has(m1, "first_received_at") THEN m1 ELSE Put(m1, "first_received_at", None)
    IN  IF Has(m2, "invisible_until") THEN m2 ELSE Put(m2, "invisible_until", None)

EnsureAll(q) == [i \in DOMAIN q |-> EnsureMessageFields(q[i])]

(* Mutant: the deadline is one time unit late. *)
NextDeadlineLate(t, visibility_timeout) == t + visibility_timeout + 1

NextDeadline(t, visibility_timeout) == t + visibility_timeout

(* --------------------------- operations -------------------------------- *)
(* Each operation maps the queue it loaded to                               *)
(*   write : whether _write_queue is called,                                *)
(*   queue : what it writes,  ret : what the method returns,                *)
(*   gen   : the receipt handles it generated.                              *)

NewMessage(id, body, t) ==
    [id |-> id, timestamp |-> t, message_body |-> body,
     receive_count |-> 0, first_received_at |-> None, invisible_until |-> None]

(* Mutant: the message is appended without the duplicate check. *)
(* Mutant: the duplicate check compares bodies, not ids. *)
AddMessageOpByBody(q, t, body, id) ==
    IF \E i \in DOMAIN q : q[i]["message_body"] = body
    THEN [write |-> FALSE, queue |-> q, ret |-> None, gen |-> <<>>]
    ELSE [write |-> TRUE, queue |-> Append(q, NewMessage(id, body, t)),
          ret |-> None, gen |-> <<>>]

AddMessageOpNoCheck(q, t, body, id) ==
    [write |-> TRUE, queue |-> Append(q, NewMessage(id, body, t)),
     ret |-> None, gen |-> <<>>]

AddMessageOp(q, t, body, id) ==
    IF \E i \in DOMAIN q : q[i]["id"] = id
    THEN [write |-> FALSE, queue |-> q, ret |-> None, gen |-> <<>>]
    ELSE [write |-> TRUE, queue |-> Append(q, NewMessage(id, body, t)),
          ret |-> None, gen |-> <<>>]

Slice(s, n) == SubSeq(s, 1, Min(n, Len(s)))

(* Mutant: messages in flight are left out of the listing. *)
GetMessagesOpVisible(q, limit) ==
    LET Visible(m) == m["invisible_until"] = None
        all == SelectSeq(EnsureAll(q), Visible)
    IN  [write |-> FALSE, queue |-> q,
         ret |-> IF limit # None THEN Slice(all, limit) ELSE all, gen |-> <<>>]

(* Mutant: get_messages saves the queue it loaded. *)
GetMessagesOpSave(q, limit) ==
    LET all == EnsureAll(q)
    IN  [write |-> TRUE, queue |-> q,
         ret |-> IF limit # None THEN Slice(all, limit) ELSE all, gen |-> <<>>]

GetMessagesOp(q, limit) ==
    LET all == EnsureAll(q)
    IN  [write |-> FALSE, queue |-> q,
         ret |-> IF limit # None THEN Slice(all, limit) ELSE all, gen |-> <<>>]

(* Some record get_messages() returns has this id. *)
Found(messages, item_id) ==
    \E i \in DOMAIN messages : Get(messages[i], "id", None) = item_id

GetMessageOp(q, item_id) ==
    LET messages == GetMessagesOp(q, None).ret
    IN  [write |-> FALSE, queue |-> q,
         ret |-> IF Found(messages, item_id)
                 THEN LET first == CHOOSE i \in DOMAIN messages :
                                      /\ Get(messages[i], "id", None) = item_id
                                      /\ \A j \in 1..(i - 1) :
                                             Get(messages[j], "id", None) # item_id
                      IN  messages[first]
                 ELSE None,
         gen |-> <<>>]

(* get_message(item_id) is not None *)
HasMessageOp(q, item_id) ==
    [write |-> FALSE, queue |-> q,
     ret |-> Found(GetMessagesOp(q, None).ret, item_id), gen |-> <<>>]

CheckExistenceOp(q, item_ids) ==
    LET messages == GetMessagesOp(q, None).ret
        message_ids_set == {messages[i]["id"] : i \in DOMAIN messages}
        Exists(item_id) == item_id \in message_ids_set
    IN  [write |-> FALSE, queue |-> q, ret |-> SelectSeq(item_ids, Exists), gen |-> <<>>]

(* Mutant: the only_new filter is dropped. *)
VisibleMessagesAll(q, t, only_new) ==
    LET Eligible(i) == IsMessageVisible(q[i], t)
    IN  SelectSeq(Indices(q), Eligible)

VisibleMessages(q, t, only_new) ==
    LET Eligible(i) == /\ IsMessageVisible(q[i], t)
                       /\ ~(only_new /\ q[i]["first_received_at"] # None)
    IN  SelectSeq(Indices(q), Eligible)

(* Mutant: the slice is taken from the wrong end. *)
SelectMessagesLast(visible, max_messages) ==
    SubSeq(visible, Len(visible) - Min(max_messages, Len(visible)) + 1, Len(visible))

SelectMessages(visible, max_messages) == Slice(visible, max_messages)

(* Mutant: receive_count is set to 1, not incremented. *)
MarkReceivedOnce(m, t, handle, visibility_timeout, delete_after_receive) ==
    LET m1 == [m EXCEPT !["receive_count"] = 1,
                        !["first_received_at"] = IF @ = None THEN t ELSE @]
        m2 == Put(m1, "current_receipt_handle", handle)
    IN  IF delete_after_receive
        THEN m2
        ELSE [m2 EXCEPT !["invisible_until"] = NextDeadline(t, visibility_timeout)]

(* Mutant: a received message is not hidden. *)
MarkReceivedVisible(m, t, handle, visibility_timeout, delete_after_receive) ==
    LET m1 == [m EXCEPT !["receive_count"] = @ + 1,
                        !["first_received_at"] = IF @ = None THEN t ELSE @]
    IN  Put(m1, "current_receipt_handle", handle)

(* Mutant: a handle the message already carries is not overwritten. *)
MarkReceivedKeepHandle(m, t, handle, visibility_timeout, delete_after_receive) ==
    LET m1 == [m EXCEPT !["receive_count"] = @ + 1,
                        !["first_received_at"] = IF @ = None THEN t ELSE @]
        m2 == IF Has(m1, "current_receipt_handle")
              THEN m1
              ELSE Put(m1, "current_receipt_handle", handle)
    IN  IF delete_after_receive
        THEN m2
        ELSE [m2 EXCEPT !["invisible_until"] = NextDeadline(t, visibility_timeout)]

(* Mutant: every receive stamps first_received_at anew. *)
MarkReceivedRestamp(m, t, handle, visibility_timeout, delete_after_receive) ==
    LET m1 == [m EXCEPT !["receive_count"] = @ + 1,
                        !["first_received_at"] = t]
        m2 == Put(m1, "current_receipt_handle", handle)
    IN  IF delete_after_receive
        THEN m2
        ELSE [m2 EXCEPT !["invisible_until"] = NextDeadline(t, visibility_timeout)]

(* Mutant: the time of the first receive is not recorded. *)
MarkReceivedUnstamped(m, t, handle, visibility_timeout, delete_after_receive) ==
    LET m1 == [m EXCEPT !["receive_count"] = @ + 1]
        m2 == Put(m1, "current_receipt_handle", handle)
    IN  IF delete_after_receive
        THEN m2
        ELSE [m2 EXCEPT !["invisible_until"] = NextDeadline(t, visibility_timeout)]

MarkReceived(m, t, handle, visibility_timeout, delete_after_receive) ==
    LET m1 == [m EXCEPT !["receive_count"] = @ + 1,
                        !["first_received_at"] = IF @ = None THEN t ELSE @]
        m2 == Put(m1, "current_receipt_handle", handle)
    IN  IF delete_after_receive
        THEN m2
        ELSE [m2 EXCEPT !["invisible_until"] = NextDeadline(t, visibility_timeout)]

Response(m, handle) ==
    [Id |-> m["id"], ReceiptHandle |-> handle, message_body |-> m["message_body"],
     timestamp |-> m["timestamp"], receive_count |-> m["receive_count"],
     first_received_at |-> m["first_received_at"]]

(* Mutant: delete_after_receive leaves the selected messages in the file. *)
ReceiveMessagesOpKeep(q, t, used, max_messages, visibility_timeout, delete_after_receive, only_new) ==
    LET q1 == EnsureAll(q)
        selected == SelectMessages(VisibleMessages(q1, t, only_new), max_messages)
        Rank(i) == CHOOSE k \in DOMAIN selected : selected[k] = i
        HandleOf(k) == GenerateReceiptHandle(used + k - 1)
        q2 == [i \in DOMAIN q1 |->
                 IF i \in Range(selected)
                 THEN MarkReceived(q1[i], t, HandleOf(Rank(i)),
                                   visibility_timeout, delete_after_receive)
                 ELSE q1[i]]
    IN  [write |-> TRUE,
         queue |-> q2,
         ret |-> [k \in DOMAIN selected |-> Response(q2[selected[k]], HandleOf(k))],
         gen |-> [k \in DOMAIN selected |->
                    [id |-> q2[selected[k]]["id"], at |-> t,
                     timeout |-> visibility_timeout, del |-> delete_after_receive]]]

ReceiveMessagesOp(q, t, used, max_messages, visibility_timeout, delete_after_receive, only_new) ==
    LET q1 == EnsureAll(q)
        selected == SelectMessages(VisibleMessages(q1, t, only_new), max_messages)
        Rank(i) == CHOOSE k \in DOMAIN selected : selected[k] = i
        HandleOf(k) == GenerateReceiptHandle(used + k - 1)
        q2 == [i \in DOMAIN q1 |->
                 IF i \in Range(selected)
                 THEN MarkReceived(q1[i], t, HandleOf(Rank(i)),
                                   visibility_timeout, delete_after_receive)
                 ELSE q1[i]]
        to_delete == {q2[selected[k]]["id"] : k \in DOMAIN selected}
        Stays(m) == m["id"] \notin to_delete
    IN  [write |-> TRUE,
         queue |-> IF delete_after_receive /\ to_delete # {} THEN SelectSeq(q2, Stays) ELSE q2,
         ret |-> [k \in DOMAIN selected |-> Response(q2[selected[k]], HandleOf(k))],
         gen |-> [k \in DOMAIN selected |->
                    [id |-> q2[selected[k]]["id"], at |-> t,
                     timeout |-> visibility_timeout, del |-> delete_after_receive]]]

ClearQueueOp == [write |-> TRUE, queue |-> <<>>, ret |-> TRUE, gen |-> <<>>]

RemoveMessageOp(q, id) ==
    LET Other(m) == m["id"] # id
        new_queue == SelectSeq(q, Other)
    IN  IF Len(new_queue) = Len(q)
        THEN [write |-> FALSE, queue |-> q, ret |-> FALSE, gen |-> <<>>]
        ELSE [write |-> TRUE, queue |-> new_queue, ret |-> TRUE, gen |-> <<>>]

(* Mutant: an unknown id is inserted instead of reported. *)
(* Mutant: the record is replaced by a new one, tracking fields reset. *)
UpdateMessageOpReset(q, t, id, new_message) ==
    IF ~HasId(q, id)
    THEN [write |-> FALSE, queue |-> q, ret |-> FALSE, gen |-> <<>>]
    ELSE LET first == CHOOSE i \in DOMAIN q :
                         /\ q[i]["id"] = id
                         /\ \A j \in 1..(i - 1) : q[j]["id"] # id
         IN  [write |-> TRUE,
              queue |-> [q EXCEPT ![first] = NewMessage(id, new_message, t)],
              ret |-> TRUE, gen |-> <<>>]

UpdateMessageOpUpsert(q, t, id, new_message) ==
    IF ~HasId(q, id)
    THEN [write |-> TRUE, queue |-> Append(q, NewMessage(id, new_message, t)),
          ret |-> TRUE, gen |-> <<>>]
    ELSE LET first == CHOOSE i \in DOMAIN q :
                         /\ q[i]["id"] = id
                         /\ \A j \in 1..(i - 1) : q[j]["id"] # id
         IN  [write |-> TRUE,
              queue |-> [q EXCEPT ![first] =
                           Put(Put(q[first], "timestamp", t), "message_body", new_message)],
              ret |-> TRUE, gen |-> <<>>]

UpdateMessageOp(q, t, id, new_message) ==
    IF ~HasId(q, id)
    THEN [write |-> FALSE, queue |-> q, ret |-> FALSE, gen |-> <<>>]
    ELSE LET first == CHOOSE i \in DOMAIN q :
                         /\ q[i]["id"] = id
                         /\ \A j \in 1..(i - 1) : q[j]["id"] # id
         IN  [write |-> TRUE,
              queue |-> [q EXCEPT ![first] =
                           Put(Put(q[first], "timestamp", t), "message_body", new_message)],
              ret |-> TRUE, gen |-> <<>>]

(* Mutant: a valid handle deletes the oldest message. *)
DeleteMessageOpHead(q, receipt_handle) ==
    LET Match(i) == Get(q[i], "current_receipt_handle", None) = receipt_handle
    IN  IF ~\E i \in DOMAIN q : Match(i)
        THEN [write |-> FALSE, queue |-> q, ret |-> FALSE, gen |-> <<>>]
        ELSE [write |-> TRUE, queue |-> Tail(q), ret |-> TRUE, gen |-> <<>>]

DeleteMessageOp(q, receipt_handle) ==
    LET Match(i) == Get(q[i], "current_receipt_handle", None) = receipt_handle
    IN  IF ~\E i \in DOMAIN q : Match(i)
        THEN [write |-> FALSE, queue |-> q, ret |-> FALSE, gen |-> <<>>]
        ELSE LET first == CHOOSE i \in DOMAIN q :
                             Match(i) /\ \A j \in 1..(i - 1) : ~Match(j)
                 Other(m) == m["id"] # q[first]["id"]
             IN  [write |-> TRUE, queue |-> SelectSeq(q, Other), ret |-> TRUE, gen |-> <<>>]

RECURSIVE SumReceives(_)
SumReceives(q) ==
    IF q = <<>> THEN 0 ELSE Get(Head(q), "receive_count", 0) + SumReceives(Tail(q))

(* Mutant: every stored message is counted as visible. *)
GetQueueInfoOpAllVisible(q, t) ==
    LET messages == EnsureAll(q)
        visible_count == Len(messages)
    IN  [write |-> FALSE, queue |-> q,
         ret |-> [message_count |-> Len(messages),
                  visible_messages |-> visible_count,
                  invisible_messages |-> Len(messages) - visible_count,
                  never_received |-> Cardinality({i \in DOMAIN messages :
                                         Get(messages[i], "receive_count", 0) = 0}),
                  total_receives |-> SumReceives(messages)],
         gen |-> <<>>]

GetQueueInfoOp(q, t) ==
    LET messages == EnsureAll(q)
        visible_count == Cardinality({i \in DOMAIN messages : IsMessageVisible(messages[i], t)})
    IN  [write |-> FALSE, queue |-> q,
         ret |-> [message_count |-> Len(messages),
                  visible_messages |-> visible_count,
                  invisible_messages |-> Len(messages) - visible_count,
                  never_received |-> Cardinality({i \in DOMAIN messages :
                                         Get(messages[i], "receive_count", 0) = 0}),
                  total_receives |-> SumReceives(messages)],
         gen |-> <<>>]

CleanupExpiredMessagesOp(q) == [write |-> TRUE, queue |-> q, ret |-> TRUE, gen |-> <<>>]

(* ------------------------ one caller: Spec ----------------------------- *)
Idle == [p \in Procs |-> "idle"]
NoOps == [p \in Procs |-> [name |-> "none"]]
NoQueues == [p \in Procs |-> <<>>]
NoRets == [p \in Procs |-> None]

Init ==
    /\ store = <<>>
    /\ disk = "json"
    /\ now = 0
    /\ issued = <<>>
    /\ live = {}
    /\ pc = Idle /\ op = NoOps /\ pending = NoQueues /\ ret = NoRets
    /\ store0 = <<>>
    /\ calls = 0

(* What the file holds once a method with outcome r has returned. *)
Persisted(r) == IF r.write THEN r.queue ELSE store

(* A method ran to completion with outcome r.  issued[h] records the       *)
(* receive that generated handle h; live holds the handles whose message   *)
(* is still stored.                                                        *)
Run(r) ==
    /\ store' = Persisted(r)
    /\ disk' = IF r.write THEN "json" ELSE disk
    /\ issued' = issued \o r.gen
    /\ live' = {h \in live \cup (Len(issued) + 1)..Len(issued') : HasId(store', issued'[h].id)}
    /\ UNCHANGED <<now, concVars>>

Call(r) ==
    /\ Len(issued) + Len(r.gen) <= MaxHandles
    /\ Run(r)

Loaded == ReadFile(disk, store, now)

AddMessage ==
    \E id \in Ids, body \in Bodies : Call(AddMessageOp(Loaded, now, body, id))

GetMessages ==
    \E limit \in {None} \cup MaxArgs : Call(GetMessagesOp(Loaded, limit))

GetMessage == \E item_id \in Ids : Call(GetMessageOp(Loaded, item_id))

HasMessage == \E item_id \in Ids : Call(HasMessageOp(Loaded, item_id))

CheckExistence ==
    \E item_ids \in IdLists : Call(CheckExistenceOp(Loaded, item_ids))

ReceiveMessages ==
    \E max_messages \in MaxArgs, visibility_timeout \in Timeouts,
       delete_after_receive \in BOOLEAN, only_new \in BOOLEAN :
        Call(ReceiveMessagesOp(Loaded, now, Len(issued), max_messages,
                               visibility_timeout, delete_after_receive, only_new))

ClearQueue == Call(ClearQueueOp)

RemoveMessage == \E id \in Ids : Call(RemoveMessageOp(Loaded, id))

UpdateMessage ==
    \E id \in Ids, body \in Bodies : Call(UpdateMessageOp(Loaded, now, id, body))

DeleteMessage == \E h \in Handles : Call(DeleteMessageOp(Loaded, h))

GetQueueInfo == Call(GetQueueInfoOp(Loaded, now))

CleanupExpiredMessages == Call(CleanupExpiredMessagesOp(Loaded))

Tick ==
    /\ now < MaxTime
    /\ now' = now + 1
    /\ UNCHANGED <<store, disk, issued, live, concVars>>

Next ==
    \/ AddMessage
    \/ GetMessages
    \/ GetMessage
    \/ HasMessage
    \/ CheckExistence
    \/ ReceiveMessages
    \/ ClearQueue
    \/ RemoveMessage
    \/ UpdateMessage
    \/ DeleteMessage
    \/ GetQueueInfo
    \/ CleanupExpiredMessages
    \/ Tick

Spec == Init /\ [][Next]_vars

(* ---------------------- two callers: SpecConc -------------------------- *)
(* No lock is taken anywhere in the client: a method is a load            *)
(* (_read_queue), a computation on the loaded list, and a save            *)
(* (_write_queue) that first truncates the file (open(..., "w")) and      *)
(* then dumps the list.  A file that is empty reads as [].                *)

FreshQueue(n) == [i \in 1..n |-> NewMessage(i, 0, 0)]

ConcOps ==
    {[name |-> "add_message", id |-> id, body |-> body] : id \in Ids, body \in Bodies}
    \cup {[name |-> "receive_messages", max |-> k, timeout |-> vt, del |-> d, only_new |-> n] :
             k \in MaxArgs, vt \in Timeouts, d \in BOOLEAN, n \in BOOLEAN}
    \cup {[name |-> "remove_message", id |-> id] : id \in Ids}

ApplyOp(o, q, t, used) ==
    CASE o.name = "add_message" -> AddMessageOp(q, t, o.body, o.id)
      [] o.name = "receive_messages" ->
             ReceiveMessagesOp(q, t, used, o.max, o.timeout, o.del, o.only_new)
      [] o.name = "remove_message" -> RemoveMessageOp(q, o.id)

InitConc ==
    /\ store \in {FreshQueue(n) : n \in 0..MaxId}
    /\ store0 = store
    /\ disk = "json"
    /\ now = 0
    /\ issued = <<>>
    /\ live = {}
    /\ pc = Idle /\ op = NoOps /\ pending = NoQueues /\ ret = NoRets
    /\ calls = 0

(* Caller p enters a method: it loads the file and computes its outcome. *)
Load(p) ==
    /\ pc[p] = "idle"
    /\ \E o \in ConcOps :
         LET r == ApplyOp(o, ReadQueue(store, now), now, Len(issued))
         IN  /\ op' = [op EXCEPT ![p] = o]
             /\ pending' = [pending EXCEPT ![p] = r.queue]
             /\ ret' = [ret EXCEPT ![p] = r.ret]
             /\ issued' = issued \o r.gen
             /\ pc' = [pc EXCEPT ![p] = IF r.write THEN "loaded" ELSE "done"]
    /\ UNCHANGED <<store, disk, now, store0, live, calls>>

(* _write_queue, line 80: open(self.queue_file, "w") empties the file. *)
OpenForWrite(p) ==
    /\ pc[p] = "loaded"
    /\ store' = <<>>
    /\ pc' = [pc EXCEPT ![p] = "writing"]
    /\ UNCHANGED <<disk, now, issued, op, pending, ret, store0, live, calls>>

(* _write_queue, line 81: json.dump writes the list the caller holds. *)
Dump(p) ==
    /\ pc[p] = "writing"
    /\ store' = pending[p]
    /\ pc' = [pc EXCEPT ![p] = "done"]
    /\ UNCHANGED <<disk, now, issued, op, pending, ret, store0, live, calls>>

NextConc == \E p \in Procs : Load(p) \/ OpenForWrite(p) \/ Dump(p)

SpecConc == InitConc /\ [][NextConc]_vars

(* ------------- callers that keep calling: SpecLoop --------------------- *)
(* Two callers, each making one call after another of the six operations    *)
(* that change the queue; the steps of their calls interleave as in         *)
(* SpecConc.  The clock stands still and `live` is not kept here.           *)
LoopOps ==
    ConcOps
    \cup {[name |-> "update_message", id |-> id, body |-> body] : id \in Ids, body \in Bodies}
    \cup {[name |-> "delete_message", handle |-> h] : h \in Handles}
    \cup {[name |-> "clear_queue"]}

ApplyLoopOp(o, q, t, used) ==
    CASE o.name \in {"add_message", "receive_messages", "remove_message"} ->
             ApplyOp(o, q, t, used)
      [] o.name = "update_message" -> UpdateMessageOp(q, t, o.id, o.body)
      [] o.name = "delete_message" -> DeleteMessageOp(q, o.handle)
      [] o.name = "clear_queue" -> ClearQueueOp

Enter(p) ==
    /\ pc[p] = "idle"
    /\ calls < MaxCalls
    /\ calls' = calls + 1
    /\ \E o \in LoopOps :
         LET r == ApplyLoopOp(o, ReadQueue(store, now), now, Len(issued))
         IN  /\ Len(issued) + Len(r.gen) <= MaxHandles
             /\ op' = [op EXCEPT ![p] = o]
             /\ pending' = [pending EXCEPT ![p] = r.queue]
             /\ ret' = [ret EXCEPT ![p] = r.ret]
             /\ issued' = issued \o r.gen
             /\ pc' = [pc EXCEPT ![p] = IF r.write THEN "loaded" ELSE "done"]
    /\ UNCHANGED <<store, disk, now, store0, live>>

(* The method returns; the caller is free to make its next call. *)
Return(p) ==
    /\ pc[p] = "done"
    /\ pc' = [pc EXCEPT ![p] = "idle"]
    /\ op' = [op EXCEPT ![p] = [name |-> "none"]]
    /\ pending' = [pending EXCEPT ![p] = <<>>]
    /\ ret' = [ret EXCEPT ![p] = None]
    /\ UNCHANGED <<store, disk, now, issued, store0, live, calls>>

NextLoop == \E p \in Procs : Enter(p) \/ OpenForWrite(p) \/ Dump(p) \/ Return(p)

SpecLoop == Init /\ [][NextLoop]_vars

(* ------------- a store that fails: SpecFault --------------------------- *)
(* One caller as in Spec, with a queue file that may be missing at the      *)
(* start and saves that may fail: open(queue_file, "w") raises and the      *)
(* file is untouched ("open"), or it succeeds, emptying the file, and       *)
(* json.dump raises before writing ("truncated") or part-way ("partial").   *)
(* No method catches what _write_queue raises.                              *)
SaveFaults == {"open", "truncated", "partial"}

WriteQueue(kind, content, queue, fault) ==
    CASE fault = "none" -> [raised |-> FALSE, disk |-> "json", store |-> queue]
      [] fault = "open" -> [raised |-> TRUE, disk |-> kind, store |-> content]
      [] fault = "truncated" -> [raised |-> TRUE, disk |-> "empty", store |-> <<>>]
      [] fault = "partial" -> [raised |-> TRUE, disk |-> "corrupt", store |-> queue]

(* Mutant: the method catches the failure and reports not-found. *)
OutcomeSwallow(r, fault) ==
    IF r.write
    THEN LET w == WriteQueue(disk, store, r.queue, fault)
         IN  IF w.raised
             THEN [raised |-> FALSE, ret |-> FALSE, disk |-> w.disk, store |-> w.store]
             ELSE [raised |-> FALSE, ret |-> r.ret, disk |-> w.disk, store |-> w.store]
    ELSE [raised |-> FALSE, ret |-> r.ret, disk |-> disk, store |-> store]

(* How a method whose computation is r ends when its save meets `fault`:    *)
(* it raises, or returns ret.                                               *)
Outcome(r, fault) ==
    IF r.write
    THEN LET w == WriteQueue(disk, store, r.queue, fault)
         IN  IF w.raised
             THEN [raised |-> TRUE, disk |-> w.disk, store |-> w.store]
             ELSE [raised |-> FALSE, ret |-> r.ret, disk |-> w.disk, store |-> w.store]
    ELSE [raised |-> FALSE, ret |-> r.ret, disk |-> disk, store |-> store]

InitFault ==
    /\ store = <<>>
    /\ disk \in {"json", "missing"}
    /\ now = 0
    /\ issued = <<>>
    /\ live = {}
    /\ pc = Idle /\ op = NoOps /\ pending = NoQueues /\ ret = NoRets
    /\ store0 = <<>>
    /\ calls = 0

(* A call of one of the six writing methods whose save fails. *)
FaultyCall ==
    \E o \in LoopOps, fault \in SaveFaults :
        LET r == ApplyLoopOp(o, Loaded, now, Len(issued))
            out == Outcome(r, fault)
        IN  /\ r.write
            /\ store' = out.store
            /\ disk' = out.disk
            /\ live' = IF out.disk = "json"
                       THEN {h \in live : HasId(out.store, issued[h].id)}
                       ELSE {}
            /\ UNCHANGED <<now, issued, concVars>>

(* The clock stands still here. *)
NextFault ==
    \/ AddMessage
    \/ GetMessages
    \/ GetMessage
    \/ HasMessage
    \/ CheckExistence
    \/ ReceiveMessages
    \/ ClearQueue
    \/ RemoveMessage
    \/ UpdateMessage
    \/ DeleteMessage
    \/ GetQueueInfo
    \/ CleanupExpiredMessages
    \/ FaultyCall

SpecFault == InitFault /\ [][NextFault]_vars

(* -------- records of an older schema: SpecLegacy ----------------------- *)
(* One caller as in Spec, on a queue file that was written by a version     *)
(* without the tracking fields: some records have id, timestamp and         *)
(* message_body only.                                                       *)
OldMessage(id) == [id |-> id, timestamp |-> 0, message_body |-> 0]

OldQueues ==
    {<<OldMessage(1)>>,
     <<OldMessage(1), OldMessage(2)>>,
     <<OldMessage(1), NewMessage(2, 0, 0)>>,
     <<NewMessage(1, 0, 0), OldMessage(2)>>}

InitLegacy ==
    /\ store \in OldQueues
    /\ disk = "json"
    /\ now = 0
    /\ issued = <<>>
    /\ live = {}
    /\ pc = Idle /\ op = NoOps /\ pending = NoQueues /\ ret = NoRets
    /\ store0 = <<>>
    /\ calls = 0

SpecLegacy == InitLegacy /\ [][Next]_vars

(* --------------- the demo script: SpecDemo ----------------------------- *)
(* src/test_in_flight_demo.py, one consumer: the queue is cleared, five     *)
(* messages are added in a burst, one receive takes three of them with a    *)
(* 30 second timeout, the consumer deletes the first with its handle, and   *)
(* time passes.  get_queue_info and cleanup_expired_messages are called at  *)
(* any point.                                                               *)
DemoAdded == Len(store) = DemoMessages /\ issued = <<>>
DemoReceived == Len(issued) = DemoMaxMessages /\ Len(store) = DemoMessages

DemoAddMessage ==
    /\ issued = <<>> /\ Len(store) < DemoMessages /\ now = 0
    /\ Run(AddMessageOp(Loaded, now, 0, Len(store) + 1))

DemoReceiveMessages ==
    /\ DemoAdded
    /\ Run(ReceiveMessagesOp(Loaded, now, Len(issued), DemoMaxMessages,
                             DemoTimeout, FALSE, FALSE))

(* msg_to_delete = consumer_a_messages[0]: the first handle generated. *)
DemoDeleteMessage ==
    /\ DemoReceived
    /\ Run(DeleteMessageOp(Loaded, 1))

DemoGetQueueInfo == Run(GetQueueInfoOp(Loaded, now))

DemoCleanupExpiredMessages == Run(CleanupExpiredMessagesOp(Loaded))

DemoTick ==
    /\ Len(store) >= DemoMessages - 1
    /\ now < DemoTimeout + DemoSlack
    /\ now' = now + 1
    /\ UNCHANGED <<store, disk, issued, live, concVars>>

NextDemo ==
    \/ DemoAddMessage
    \/ DemoReceiveMessages
    \/ DemoDeleteMessage
    \/ DemoGetQueueInfo
    \/ DemoCleanupExpiredMessages
    \/ DemoTick

SpecDemo == Init /\ [][NextDemo]_vars

(* ============================ claims ==================================== *)
(* What a call made in the current state returns and writes is the value   *)
(* of the operation on the queue loaded now.                                *)
Received(k, vt, d, n) == ReceiveMessagesOp(Loaded, now, Len(issued), k, vt, d, n)
Deleted(h) == DeleteMessageOp(Loaded, h)
RetIds(r) == {r.ret[j].Id : j \in DOMAIN r.ret}
Deadline(h) == issued[h].at + issued[h].timeout
HandlesOf(id) == {h \in live : issued[h].id = id}
(* h comes from a receive, with a positive timeout and without delete, of   *)
(* the stored message id, and its deadline has not come.                    *)
HeldBy(id, h) ==
    /\ h \in live /\ issued[h].id = id
    /\ ~issued[h].del /\ issued[h].timeout > 0
    /\ now < Deadline(h)
(* Every deadline a receive gave the i-th stored message has passed. *)
Expired(i) == \A h \in HandlesOf(store[i]["id"]) : now >= Deadline(h)

(* C1: a receive_messages call that starts before the deadline of an       *)
(* earlier receive (timeout > 0, no delete) of a stored message does not   *)
(* return that message, whatever its max_messages and only_new.            *)
C1_AtMostOneInFlight ==
    \A k \in MaxArgs, vt \in Timeouts, d \in BOOLEAN, n \in BOOLEAN :
        \A id \in RetIds(Received(k, vt, d, n)) : \A h \in live : ~HeldBy(id, h)

(* A later receive (h2) returned another message while h1 held its own. *)
C1_Witness ==
    \E h1 \in live, h2 \in live :
        /\ h1 < h2
        /\ HeldBy(issued[h1].id, h1)
        /\ issued[h2].id # issued[h1].id
        /\ issued[h2].timeout # issued[h1].timeout

(* C2 as stated: delete_message with a handle whose visibility deadline    *)
(* (timeout > 0) has passed returns False and leaves the queue as it was.   *)
C2_ExpiredHandleRejected ==
    \A h \in 1..Len(issued) :
        (~issued[h].del /\ issued[h].timeout > 0 /\ now > Deadline(h)) =>
            (Deleted(h).ret = FALSE /\ Persisted(Deleted(h)) = store)

(* ---- two concurrent callers ---- *)
BothDone == \A p \in Procs : pc[p] = "done"
Without(f, k) == [x \in DOMAIN f \ {k} |-> f[x]]
(* Receipt handles are fresh random tokens: outcomes are compared without them. *)
QueueView(q) == [i \in DOMAIN q |-> Without(q[i], "current_receipt_handle")]
RetView(o, r) ==
    IF o.name = "receive_messages"
    THEN [j \in DOMAIN r |-> Without(r[j], "ReceiptHandle")]
    ELSE r
(* The two calls run one after the other from the initial queue. *)
Serial(first, second) ==
    LET r1 == ApplyOp(op[first], ReadQueue(store0, now), now, 0)
        s1 == IF r1.write THEN r1.queue ELSE store0
        r2 == ApplyOp(op[second], ReadQueue(s1, now), now, Len(r1.gen))
        s2 == IF r2.write THEN r2.queue ELSE s1
    IN  [queue |-> s2, first |-> r1.ret, second |-> r2.ret]
SameAsSerial(first, second) ==
    LET o == Serial(first, second)
    IN  /\ QueueView(store) = QueueView(o.queue)
        /\ RetView(op[first], ret[first]) = RetView(op[first], o.first)
        /\ RetView(op[second], ret[second]) = RetView(op[second], o.second)
Serializable == SameAsSerial(1, 2) \/ SameAsSerial(2, 1)
ReturnedTo(p) == {ret[p][j].Id : j \in DOMAIN ret[p]}

(* C3 as stated: two concurrent receive_messages calls with a positive      *)
(* visibility timeout never return the same message to both callers, and    *)
(* their outcome is that of the two calls in some serial order.             *)
C3_NoDuplicateDelivery ==
    (/\ BothDone
     /\ \A p \in Procs : op[p].name = "receive_messages" /\ op[p].timeout > 0)
    => (ReturnedTo(1) \cap ReturnedTo(2) = {} /\ Serializable)

(* C4 as stated: when two concurrent operations have completed, the         *)
(* persisted queue is the result of some serial order of the two; two       *)
(* add_message calls with distinct ids leave both messages in the queue.    *)
C4_NoLostUpdate ==
    BothDone =>
        /\ Serializable
        /\ (/\ \A p \in Procs : op[p].name = "add_message"
            /\ op[1].id # op[2].id) => {op[1].id, op[2].id} \subseteq IdsOf(store)

(* ---- one caller, continued ---- *)
Info == GetQueueInfoOp(Loaded, now).ret

(* C5: once the timeout of a receive has elapsed and the message is still   *)
(* stored, every read treats it as visible: get_queue_info counts exactly   *)
(* the messages with no deadline ahead as visible, and a receive_messages   *)
(* call with room for all of them returns every such message.               *)
C5_ExpiryRoundTrip ==
    /\ Info.visible_messages = Cardinality({i \in DOMAIN store : Expired(i)})
    /\ \A k \in MaxArgs, vt \in Timeouts, d \in BOOLEAN :
           k >= Len(store) =>
               \A i \in DOMAIN store :
                   Expired(i) => store[i]["id"] \in RetIds(Received(k, vt, d, FALSE))

(* A positive timeout has elapsed; the file still holds the stale deadline, *)
(* and the message is counted visible and returned by a receive.            *)
C5_Witness ==
    \E i \in DOMAIN store : \E h \in HandlesOf(store[i]["id"]) :
        /\ issued[h].timeout > 0 /\ ~issued[h].del
        /\ now >= Deadline(h)
        /\ store[i]["invisible_until"] = Deadline(h)
        /\ Info.visible_messages >= 1
        /\ store[i]["id"] \in RetIds(Received(MaxMessages, 1, FALSE, FALSE))

(* C6: delete_message succeeds only with the handle of a message that is    *)
(* still stored, and removes that message; a handle whose message has left  *)
(* the queue never belongs to a stored message again, also when the same id *)
(* is enqueued anew.  So at most one delete_message(h) returns True.        *)
C6_HandleSingleUse ==
    /\ [](\A h \in Handles :
            IF h \in live
            THEN Deleted(h).ret = TRUE => ~HasId(Persisted(Deleted(h)), issued[h].id)
            ELSE Deleted(h).ret = FALSE)
    /\ [][\A h \in 1..Len(issued) : h \notin live => h \notin live']_vars

(* The message a handle was issued for has left the queue, its id is stored *)
(* again and has been received again, and the old handle is refused.        *)
C6_Witness ==
    \E h \in 1..Len(issued), h2 \in live :
        /\ h \notin live /\ ~issued[h].del
        /\ issued[h2].id = issued[h].id
        /\ Deleted(h).ret = FALSE
        /\ Deleted(h2).ret = TRUE

(* C7: add_message with an id that is already stored leaves the persisted   *)
(* queue exactly as it was, whatever body is passed.                        *)
C7_IdempotentEnqueue ==
    \A id \in IdsOf(store), body \in Bodies :
        Persisted(AddMessageOp(Loaded, now, body, id)) = store

(* A stored message that is in flight is enqueued again with another body. *)
C7_Witness ==
    \E i \in DOMAIN store, body \in Bodies :
        /\ body # store[i]["message_body"]
        /\ store[i]["receive_count"] >= 1
        /\ ~IsMessageVisible(store[i], now)
        /\ Persisted(AddMessageOp(Loaded, now, body, store[i]["id"])) = store

(* C8: the stored receive_count of a message is the number of receives that *)
(* selected it, in every reachable state (so no other operation changes it),*)
(* and the N-th receipt record of a message that stays stored reports N.    *)
C8_ReceiveCount ==
    /\ \A i \in DOMAIN store :
           Get(store[i], "receive_count", 0) = Cardinality(HandlesOf(store[i]["id"]))
    /\ \A k \in MaxArgs, vt \in Timeouts, n \in BOOLEAN :
           LET r == Received(k, vt, FALSE, n)
           IN  \A j \in DOMAIN r.ret :
                   r.ret[j].receive_count = Cardinality(HandlesOf(r.ret[j].Id)) + 1

(* A message was selected twice, with an expiry in between. *)
C8_Witness ==
    \E i \in DOMAIN store :
        /\ store[i]["receive_count"] = 2
        /\ \E h \in HandlesOf(store[i]["id"]) : issued[h].timeout > 0 /\ now >= Deadline(h)

(* C9: receive_messages(only_new=True) returns no message that an earlier   *)
(* receive selected, visible or not; with room for all, it returns exactly  *)
(* the stored messages no receive has selected.                             *)
C9_OnlyNew ==
    \A k \in MaxArgs, vt \in Timeouts, d \in BOOLEAN :
        LET r == Received(k, vt, d, TRUE)
        IN  /\ \A j \in DOMAIN r.ret :
                   HandlesOf(r.ret[j].Id) = {} /\ r.ret[j].receive_count = 1
            /\ k >= Len(store) =>
                   RetIds(r) = {id \in IdsOf(store) : HandlesOf(id) = {}}

(* A message received before is visible again; only_new leaves it out and   *)
(* returns the new one, while a plain receive returns both.                 *)
C9_Witness ==
    \E i \in DOMAIN store :
        /\ HandlesOf(store[i]["id"]) # {}
        /\ Expired(i)
        /\ RetIds(Received(MaxMessages, 1, FALSE, TRUE)) # {}
        /\ store[i]["id"] \notin RetIds(Received(MaxMessages, 1, FALSE, TRUE))
        /\ store[i]["id"] \in RetIds(Received(MaxMessages, 1, FALSE, FALSE))

(* The ids of the eligible messages of the file, in file order. *)
RECURSIVE EligibleIds(_, _, _)
EligibleIds(q, t, only_new) ==
    IF q = <<>> THEN <<>>
    ELSE LET m == Head(q)
             visible == Get(m, "invisible_until", None) = None \/ m["invisible_until"] <= t
             fresh == Get(m, "first_received_at", None) = None
         IN  (IF visible /\ (~only_new \/ fresh) THEN <<m["id"]>> ELSE <<>>)
             \o EligibleIds(Tail(q), t, only_new)

(* C10: receive_messages(max_messages = k), k >= 1, returns the first       *)
(* min(k, e) of the e eligible messages, in insertion order.                *)
C10_FifoSelection ==
    \A k \in MaxArgs, vt \in Timeouts, d \in BOOLEAN, n \in BOOLEAN :
        LET r == Received(k, vt, d, n)
            e == EligibleIds(store, now, n)
        IN  /\ Len(r.ret) = Min(k, Len(e))
            /\ \A j \in DOMAIN r.ret : r.ret[j].Id = e[j]

(* Two messages are eligible, the older one after an expiry; a receive with *)
(* max_messages = 1 returns the older one.                                  *)
C10_Witness ==
    /\ Len(EligibleIds(store, now, FALSE)) = 2
    /\ store[1]["receive_count"] = 1
    /\ Len(Received(1, 1, FALSE, FALSE).ret) = 1
    /\ Received(1, 1, FALSE, FALSE).ret[1].Id = store[1]["id"]

(* The deadline stored with the i-th message of the file is still ahead. *)
DeadlineAhead(i) ==
    /\ Has(store[i], "invisible_until")
    /\ store[i]["invisible_until"] # None
    /\ store[i]["invisible_until"] > now
RECURSIVE CountSum(_, _)
CountSum(q, n) == IF n = 0 THEN 0 ELSE q[n]["receive_count"] + CountSum(q, n - 1)

(* C11: in every reachable state get_queue_info reports message_count = the *)
(* number of stored messages, visible_messages = the number whose           *)
(* invisible_until is absent, None or not after now, invisible_messages =   *)
(* the number whose invisible_until is after now, never_received = the      *)
(* number no receive has selected, total_receives = the sum of              *)
(* receive_count (one per receive of a stored message); so visible plus     *)
(* invisible is message_count.                                              *)
C11_StatsAccuracy ==
    /\ Info.message_count = Len(store)
    /\ Info.visible_messages = Cardinality({i \in DOMAIN store : ~DeadlineAhead(i)})
    /\ Info.invisible_messages = Cardinality({i \in DOMAIN store : DeadlineAhead(i)})
    /\ Info.never_received =
           Cardinality({i \in DOMAIN store : HandlesOf(store[i]["id"]) = {}})
    /\ Info.total_receives = CountSum(store, Len(store))
    /\ Info.total_receives = Cardinality(live)
    /\ Info.visible_messages + Info.invisible_messages = Info.message_count

(* One message is in flight after two receives, the other was never         *)
(* received.                                                                *)
C11_Witness ==
    /\ Info.message_count = 2
    /\ Info.visible_messages = 1
    /\ Info.invisible_messages = 1
    /\ Info.never_received = 1
    /\ Info.total_receives = 2

(* ---- the demo script ---- *)
DemoDeleted == Len(issued) = DemoMaxMessages /\ Len(store) = DemoMessages - 1

(* C12: from an empty queue, once m1..m5 are added get_queue_info reports   *)
(* 5 messages, 5 visible, 0 in flight; receive_messages(3, 30) returns      *)
(* m1, m2, m3 and until 30 time units have passed the report is 2 visible,  *)
(* 3 in flight; delete_message with m1's handle returns True and leaves 4   *)
(* messages; once 30 time units have passed since the receive the report    *)
(* is 0 in flight, 4 visible.                                               *)
C12_DemoScenario ==
    /\ DemoAdded =>
           /\ Info.message_count = 5 /\ Info.visible_messages = 5
           /\ Info.invisible_messages = 0
           /\ LET r == Received(DemoMaxMessages, DemoTimeout, FALSE, FALSE).ret
              IN  Len(r) = 3 /\ \A j \in 1..3 : r[j].Id = j
    /\ (DemoReceived /\ now < Deadline(1)) =>
           /\ Info.visible_messages = 2 /\ Info.invisible_messages = 3
           /\ issued[1].id = 1
           /\ Deleted(1).ret = TRUE
           /\ Len(Persisted(Deleted(1))) = 4
    /\ DemoDeleted =>
           /\ Info.message_count = 4
           /\ ~HasId(store, 1)
           /\ IF now < Deadline(1)
              THEN Info.visible_messages = 2 /\ Info.invisible_messages = 2
              ELSE Info.visible_messages = 4 /\ Info.invisible_messages = 0

(* The script has run to its end: m1 is deleted, 30 time units have passed  *)
(* since the receive, the file still holds the old deadlines, and the       *)
(* report is 4 messages, all visible.                                       *)
C12_Witness ==
    /\ DemoDeleted
    /\ now >= Deadline(1)
    /\ \E i \in DOMAIN store : store[i]["invisible_until"] = Deadline(1)
    /\ Info.message_count = 4
    /\ Info.visible_messages = 4
    /\ Info.invisible_messages = 0

(* ---- one caller: handles, frames, disclosure ---- *)
(* h2 is the handle of the latest receive of the stored message id. *)
Latest(id, h2) == h2 \in HandlesOf(id) /\ \A h \in HandlesOf(id) : h <= h2
StoredAt(id) == CHOOSE i \in DOMAIN store : store[i]["id"] = id

(* C13: when a stored message was received with h1 and, after that timeout  *)
(* expired, again with h2, delete_message(h1) returns False and leaves the  *)
(* file as it is, with the message held under h2 (invisible until h2's      *)
(* deadline); delete_message(h2) before that deadline returns True and      *)
(* removes the message.                                                     *)
C13_SupersededHandle ==
    \A h1 \in live, h2 \in live :
        (h1 < h2 /\ issued[h1].id = issued[h2].id /\ Latest(issued[h2].id, h2)) =>
            LET id == issued[h2].id
            IN  /\ h1 # h2
                /\ now >= Deadline(h1)
                /\ Deleted(h1).ret = FALSE
                /\ Persisted(Deleted(h1)) = store
                /\ store[StoredAt(id)]["current_receipt_handle"] = h2
                /\ now < Deadline(h2) =>
                       /\ ~IsMessageVisible(store[StoredAt(id)], now)
                       /\ Deleted(h2).ret = TRUE
                       /\ ~HasId(Persisted(Deleted(h2)), id)
                       /\ Len(Persisted(Deleted(h2))) = Len(store) - 1

(* A message was received with a positive timeout, the timeout expired, it  *)
(* was received again and that deadline is still ahead: the first handle is *)
(* refused, the second one deletes.                                         *)
C13_Witness ==
    \E h1 \in live, h2 \in live :
        /\ h1 < h2 /\ issued[h1].id = issued[h2].id
        /\ issued[h1].timeout > 0
        /\ now < Deadline(h2)
        /\ Len(store) = 2
        /\ Deleted(h1).ret = FALSE
        /\ Deleted(h2).ret = TRUE

(* What get_messages() returns when the file holds q. *)
Listed(q) == GetMessagesOp(ReadQueue(q, now), None).ret

(* C14: receive_messages(delete_after_receive=True) writes the loaded queue *)
(* without the messages it returns: none of them is listed by get_messages  *)
(* or returned by a receive that follows, every other message stays, in     *)
(* order and as loaded, and delete_message with a returned handle returns   *)
(* False, then and in every later state.                                    *)
C14_DeleteAfterReceive ==
    /\ \A k \in MaxArgs, vt \in Timeouts, n \in BOOLEAN :
           LET r == Received(k, vt, TRUE, n)
               after == Persisted(r)
               Stays(m) == m["id"] \notin RetIds(r)
           IN  /\ IdsOf(Listed(after)) = IdsOf(store) \ RetIds(r)
               /\ after = SelectSeq(Loaded, Stays)
               /\ \A k2 \in MaxArgs, n2 \in BOOLEAN :
                      RetIds(r) \cap RetIds(ReceiveMessagesOp(ReadQueue(after, now), now,
                                      Len(issued) + Len(r.gen), k2, vt, FALSE, n2)) = {}
               /\ \A j \in DOMAIN r.ret :
                      DeleteMessageOp(ReadQueue(after, now), r.ret[j].ReceiptHandle).ret = FALSE
    /\ \A h \in 1..Len(issued) :
           issued[h].del => (h \notin live /\ Deleted(h).ret = FALSE)

(* A receive with delete_after_receive took one message and left another,   *)
(* which is in flight; the handle of the removed one is refused.            *)
C14_Witness ==
    \E h \in 1..Len(issued), h2 \in live :
        /\ issued[h].del /\ ~issued[h2].del
        /\ h2 < h
        /\ ~HasId(store, issued[h].id)
        /\ HeldBy(issued[h2].id, h2)
        /\ Deleted(h).ret = FALSE

Removed(id) == RemoveMessageOp(Loaded, id)
Updated(id, body) == UpdateMessageOp(Loaded, now, id, body)

(* C15: with an id no stored message has, remove_message and update_message *)
(* return False and get_message returns None; with a handle no stored       *)
(* message was received under, delete_message returns False; and none of    *)
(* these calls changes the file.                                            *)
C15_NotFound ==
    /\ \A id \in Ids \ IdsOf(store) :
           /\ Removed(id).ret = FALSE /\ Persisted(Removed(id)) = store
           /\ \A body \in Bodies :
                  Updated(id, body).ret = FALSE /\ Persisted(Updated(id, body)) = store
           /\ GetMessageOp(Loaded, id).ret = None
           /\ Persisted(GetMessageOp(Loaded, id)) = store
    /\ \A h \in Handles \ live :
           Deleted(h).ret = FALSE /\ Persisted(Deleted(h)) = store

(* The file holds a message with an expired deadline still written in it,   *)
(* another id is unknown, one handle was never issued: the four calls       *)
(* report not-found.                                                        *)
C15_Witness ==
    \E id \in Ids \ IdsOf(store), h \in Handles \ live, i \in DOMAIN store :
        /\ h > Len(issued)
        /\ store[i]["invisible_until"] # None /\ now >= store[i]["invisible_until"]
        /\ \E h2 \in HandlesOf(store[i]["id"]) : issued[h2].timeout > 0
        /\ Removed(id).ret = FALSE
        /\ Updated(id, 1).ret = FALSE
        /\ GetMessageOp(Loaded, id).ret = None
        /\ Deleted(h).ret = FALSE

(* C16: update_message(id, body) with a stored id returns True and writes   *)
(* the queue with that message's body replaced and its timestamp set to     *)
(* now; the message keeps its keys, receive_count, first_received_at,       *)
(* receipt handle and visibility, every other message is written as         *)
(* loaded, the order is kept, and a handle that holds the message deletes   *)
(* it at any time before its deadline.                                      *)
C16_UpdateFrame ==
    \A id \in IdsOf(store), body \in Bodies :
        LET r == Updated(id, body)
            after == Persisted(r)
            i == StoredAt(id)
        IN  /\ r.ret = TRUE
            /\ Len(after) = Len(store)
            /\ after[i]["message_body"] = body
            /\ after[i]["timestamp"] = now
            /\ DOMAIN after[i] = DOMAIN store[i]
            /\ \A key \in {"id", "receive_count", "first_received_at"} :
                   after[i][key] = store[i][key]
            /\ Get(after[i], "current_receipt_handle", None)
                   = Get(store[i], "current_receipt_handle", None)
            /\ \A t \in now..MaxTime :
                   IsMessageVisible(after[i], t) = IsMessageVisible(store[i], t)
            /\ \A j \in DOMAIN store \ {i} : after[j] = Loaded[j]
            /\ \A h \in live, t \in now..MaxTime :
                   (HeldBy(id, h) /\ t < Deadline(h)) =>
                       LET d == DeleteMessageOp(ReadQueue(after, t), h)
                       IN  d.ret = TRUE /\ d.write /\ ~HasId(d.queue, id)

(* A message enqueued earlier is in flight and another one is stored: its   *)
(* update with another body succeeds and the handle still deletes it.       *)
C16_Witness ==
    \E h \in live, body \in Bodies :
        LET id == issued[h].id
        IN  /\ HeldBy(id, h)
            /\ Len(store) = 2
            /\ store[StoredAt(id)]["timestamp"] < now
            /\ store[StoredAt(id)]["message_body"] # body
            /\ Updated(id, body).ret = TRUE
            /\ DeleteMessageOp(ReadQueue(Persisted(Updated(id, body)), now), h).ret = TRUE

Added(id, body) == AddMessageOp(Loaded, now, body, id)

(* C17 as stated: add_message returns the id under which the message is     *)
(* stored, when it appends the message and when the id was already present. *)
C17_AddReturnsId ==
    \A id \in Ids, body \in Bodies : Added(id, body).ret = id

(* The records get_messages() and get_message(id) return in this state. *)
Disclosed ==
    Range(Listed(store)) \cup {GetMessageOp(Loaded, id).ret : id \in IdsOf(store)}

(* C18 as stated: no record returned by get_messages or get_message carries *)
(* a receipt handle with which delete_message succeeds.                     *)
C18_HandlesOnlyFromReceive ==
    \A rec \in Disclosed :
        Has(rec, "current_receipt_handle") =>
            Deleted(rec["current_receipt_handle"]).ret = FALSE

(* ---- two concurrent callers, continued ---- *)
(* Caller p's operation took the message id out of the queue. *)
RemovedBy(p, id) ==
    \/ op[p].name = "remove_message" /\ op[p].id = id
    \/ op[p].name = "receive_messages" /\ op[p].del /\ id \in ReturnedTo(p)

(* C19 as stated: a load never observes the file between another caller's   *)
(* truncation and its dump, so once both operations have completed every    *)
(* message of the initial queue that neither of them removed is still       *)
(* stored.                                                                  *)
C19_NoTornRead ==
    BothDone =>
        \A id \in IdsOf(store0) :
            (\A p \in Procs : ~RemovedBy(p, id)) => HasId(store, id)

(* ---- callers that keep calling ---- *)
(* C20: whatever calls of add_message, receive_messages, delete_message,    *)
(* remove_message, update_message and clear_queue the callers make, one     *)
(* after another or overlapping, no two stored messages have the same id.   *)
C20_UniqueIds ==
    \A i \in DOMAIN store, j \in DOMAIN store : i # j => store[i]["id"] # store[j]["id"]

(* After an earlier call stored one message, both callers added the same    *)
(* new id at once: each loaded a queue without it and wrote; the file holds *)
(* it once.                                                                 *)
C20_Witness ==
    /\ BothDone
    /\ \A p \in Procs : op[p].name = "add_message" /\ Len(pending[p]) = 2
    /\ op[1].id = op[2].id
    /\ op[1].body # op[2].body
    /\ Len(store) = 2
    /\ Cardinality(IdsOf(store)) = 2

(* ---- one caller: history of a message ---- *)
(* The handle of the first receive that selected the stored message id. *)
FirstHandle(id) == CHOOSE h \in HandlesOf(id) : \A h2 \in HandlesOf(id) : h <= h2

(* C21: the stored first_received_at of a message is None as long as no     *)
(* receive has selected it and is the time of the first receive that did    *)
(* from then on; no step (receive, sweep, update, read, or any other call)  *)
(* changes a value that is set while the message stays stored.              *)
C21_FirstReceivedWriteOnce ==
    /\ [](\A i \in DOMAIN store :
            /\ Has(store[i], "first_received_at")
            /\ store[i]["first_received_at"] =
                   IF HandlesOf(store[i]["id"]) = {}
                   THEN None
                   ELSE issued[FirstHandle(store[i]["id"])].at)
    /\ [][\A i \in DOMAIN store, j \in DOMAIN store' :
            (/\ store[i]["id"] = store'[j]["id"]
             /\ store[i]["first_received_at"] # None)
            => store'[j]["first_received_at"] = store[i]["first_received_at"]]_vars

(* A message was received at one time and again at a later time, then       *)
(* updated: it still carries the time of the first receive.                 *)
C21_Witness ==
    \E i \in DOMAIN store : \E h1, h2 \in HandlesOf(store[i]["id"]) :
        /\ issued[h1].at < issued[h2].at
        /\ store[i]["first_received_at"] = issued[h1].at
        /\ store[i]["timestamp"] > issued[h2].at

(* C22: get_messages(limit) returns the first min(limit, n) of the n stored *)
(* messages in file order, all of them without a limit, each as loaded; a   *)
(* message held by an unexpired handle is returned by get_messages and      *)
(* get_message and reported by has_message and check_existence, and is      *)
(* returned by no receive_messages call.                                    *)
C22_GetMessages ==
    /\ \A limit \in {None} \cup 0..MaxMessages :
           LET r == GetMessagesOp(Loaded, limit).ret
           IN  /\ Len(r) = IF limit = None THEN Len(store) ELSE Min(limit, Len(store))
               /\ \A j \in DOMAIN r :
                      r[j]["id"] = store[j]["id"] /\ r[j] = CleanupOne(store[j], now)
    /\ \A h \in live :
           LET id == issued[h].id
           IN  HeldBy(id, h) =>
                   /\ id \in IdsOf(Listed(store))
                   /\ GetMessageOp(Loaded, id).ret = store[StoredAt(id)]
                   /\ HasMessageOp(Loaded, id).ret = TRUE
                   /\ \A item_ids \in IdLists :
                          CheckExistenceOp(Loaded, item_ids).ret
                              = SelectSeq(item_ids, LAMBDA a : HasId(store, a))
                   /\ CheckExistenceOp(Loaded, <<id>>).ret = <<id>>
                   /\ \A k \in MaxArgs, vt \in Timeouts, d \in BOOLEAN, n \in BOOLEAN :
                          id \notin RetIds(Received(k, vt, d, n))

(* Two messages are stored, the first one in flight: get_messages(1)        *)
(* returns it, a receive with room for both returns only the other.         *)
C22_Witness ==
    \E h \in live :
        /\ HeldBy(issued[h].id, h)
        /\ Len(store) = 2
        /\ store[1]["id"] = issued[h].id
        /\ Len(GetMessagesOp(Loaded, 1).ret) = 1
        /\ GetMessagesOp(Loaded, 1).ret[1]["id"] = issued[h].id
        /\ RetIds(Received(MaxMessages, 1, FALSE, FALSE)) = {store[2]["id"]}

C24_SaveFaultReported ==
    \A o \in LoopOps :
        LET r == ApplyLoopOp(o, Loaded, now, Len(issued))
        IN  /\ \A fault \in SaveFaults :
                   LET out == Outcome(r, fault)
                   IN  IF r.write
                       THEN out.raised /\ ~Has(out, "ret")
                       ELSE ~out.raised /\ out.ret = r.ret
            /\ ~Outcome(r, "none").raised
            /\ Outcome(r, "none").ret = r.ret

(* A save failed after emptying the file of a queue whose messages had     *)
(* been received; an add_message whose save fails at open raises again and  *)
(* leaves the file as it is.                                                *)
C24_Witness ==
    /\ disk = "empty"
    /\ issued # <<>>
    /\ Added(1, 0).write
    /\ Outcome(Added(1, 0), "open").raised
    /\ ~Has(Outcome(Added(1, 0), "open"), "ret")
    /\ Outcome(Added(1, 0), "open").disk = "empty"

(* ---- records of an older schema ---- *)
IsOld(m) == DOMAIN m = {"id", "timestamp", "message_body"}
(* The file as add_message would have written its records. *)
AsNew(q) ==
    [i \in DOMAIN q |->
        IF IsOld(q[i])
        THEN NewMessage(q[i]["id"], q[i]["message_body"], q[i]["timestamp"])
        ELSE q[i]]

(* C25: a stored record with id, timestamp and message_body only behaves    *)
(* as the record add_message writes: it is counted visible and never        *)
(* received, a receive with room for all messages returns it, with          *)
(* only_new too, reporting receive_count = 1; and every call returns what   *)
(* it would return, and stores the messages it would store, had the file    *)
(* held the records in the new form.                                        *)
C25_OldRecords ==
    (\E i \in DOMAIN store : IsOld(store[i])) =>
        LET old == ReadQueue(store, now)
            new == ReadQueue(AsNew(store), now)
            nOld == Cardinality({i \in DOMAIN store : IsOld(store[i])})
        IN  /\ Info.visible_messages >= nOld
            /\ Info.never_received >= nOld
            /\ Info = GetQueueInfoOp(new, now).ret
            /\ \A limit \in {None} \cup MaxArgs :
                   GetMessagesOp(old, limit).ret = GetMessagesOp(new, limit).ret
            /\ \A i \in DOMAIN store, vt \in Timeouts, d \in BOOLEAN, n \in BOOLEAN :
                   IsOld(store[i]) =>
                       LET r == Received(MaxMessages, vt, d, n).ret
                       IN  \E j \in DOMAIN r :
                               /\ r[j].Id = store[i]["id"]
                               /\ r[j].receive_count = 1
                               /\ r[j].first_received_at = now
            /\ \A o \in LoopOps :
                   LET a == ApplyLoopOp(o, old, now, Len(issued))
                       b == ApplyLoopOp(o, new, now, Len(issued))
                   IN  /\ a.ret = b.ret
                       /\ a.write = b.write
                       /\ AsNew(a.queue) = b.queue

(* Time has passed, the file holds an old record behind a message that was  *)
(* updated since; a receive of new messages returns both, each for the      *)
(* first time.                                                              *)
C25_Witness ==
    /\ Len(store) = 2
    /\ IsOld(store[2]) /\ ~IsOld(store[1])
    /\ store[1]["timestamp"] > 0
    /\ Len(Received(MaxMessages, 1, FALSE, TRUE).ret) = 2
    /\ Received(MaxMessages, 1, FALSE, TRUE).ret[2].receive_count = 1
    /\ Info.never_received = 2

(* ---- what leaves the queue ---- *)
IdSeq(q) == [i \in DOMAIN q |-> q[i]["id"]]
IdsBut(q, gone) ==
    LET Stays(id) == id \notin gone
    IN  SelectSeq(IdSeq(q), Stays)
(* The ids of the stored messages whose current handle is h. *)
Carrying(h) ==
    {store[i]["id"] : i \in {j \in DOMAIN store :
                                Get(store[j], "current_receipt_handle", None) = h}}

(* C26: the sweep of a load, add_message of a stored id, receive_messages   *)
(* without delete, update_message, cleanup_expired_messages and the reads   *)
(* leave the stored ids and their order as they are, and add_message of a   *)
(* new id puts it last; the ids that leave are those a receive with         *)
(* delete_after_receive returns, the id given to remove_message, the id of  *)
(* the message that carries the handle given to a delete_message that       *)
(* returns True, and all of them at clear_queue.                            *)
C26_LostOnlyByRemoval ==
    /\ IdSeq(Loaded) = IdSeq(store)
    /\ \A id \in Ids, body \in Bodies :
           /\ IdSeq(Persisted(Added(id, body)))
                  = IF id \in IdsOf(store) THEN IdSeq(store) ELSE Append(IdSeq(store), id)
           /\ IdSeq(Persisted(Updated(id, body))) = IdSeq(store)
    /\ \A k \in MaxArgs, vt \in Timeouts, n \in BOOLEAN :
           /\ IdSeq(Persisted(Received(k, vt, FALSE, n))) = IdSeq(store)
           /\ IdSeq(Persisted(Received(k, vt, TRUE, n)))
                  = IdsBut(store, RetIds(Received(k, vt, TRUE, n)))
    /\ IdSeq(Persisted(CleanupExpiredMessagesOp(Loaded))) = IdSeq(store)
    /\ \A limit \in {None} \cup MaxArgs : ~GetMessagesOp(Loaded, limit).write
    /\ \A id \in Ids : ~GetMessageOp(Loaded, id).write /\ ~HasMessageOp(Loaded, id).write
    /\ \A item_ids \in IdLists : ~CheckExistenceOp(Loaded, item_ids).write
    /\ ~GetQueueInfoOp(Loaded, now).write
    /\ \A id \in Ids : IdSeq(Persisted(Removed(id))) = IdsBut(store, {id})
    /\ \A h \in Handles :
           /\ Deleted(h).ret = (Carrying(h) # {})
           /\ Cardinality(Carrying(h)) <= 1
           /\ IdSeq(Persisted(Deleted(h))) = IdsBut(store, Carrying(h))
    /\ Persisted(ClearQueueOp) = <<>>

(* Two messages are stored; the first was received, its deadline has passed *)
(* and the file still holds the deadline, so the next load sweeps it; a     *)
(* receive without delete then selects it again.                            *)
C26_Witness ==
    /\ Len(store) = 2
    /\ Loaded # store
    /\ \E h \in live :
           /\ ~issued[h].del /\ issued[h].timeout > 0
           /\ now >= Deadline(h)
           /\ store[1]["id"] = issued[h].id
           /\ store[1]["invisible_until"] # None
           /\ Received(1, 1, FALSE, FALSE).ret[1].Id = issued[h].id

(* C27: when delete_message(h) returns True, h was returned by a receive of *)
(* a message still stored; the call writes the queue without that message   *)
(* and with every other message in its place in the order, with its keys,   *)
(* body, timestamp, receive_count, first_received_at and receipt handle as  *)
(* stored and visible at the same times as before.                          *)
C27_DeleteFrame ==
    \A h \in Handles :
        LET r == Deleted(h)
        IN  r.ret = TRUE =>
                /\ h \in live
                /\ r.write
                /\ LET id == issued[h].id
                       i == StoredAt(id)
                       after == Persisted(r)
                   IN  /\ Len(after) = Len(store) - 1
                       /\ ~HasId(after, id)
                       /\ \A j \in DOMAIN store \ {i} :
                              LET m == after[IF j < i THEN j ELSE j - 1]
                              IN  /\ DOMAIN m = DOMAIN store[j]
                                  /\ \A key \in DOMAIN m \ {"invisible_until"} :
                                         m[key] = store[j][key]
                                  /\ \A t \in now..MaxTime :
                                         IsMessageVisible(m, t)
                                             = IsMessageVisible(store[j], t)

(* Two messages are in flight under their own handles; the handle of the    *)
(* second one deletes it and the first stays in flight.                     *)
C27_Witness ==
    \E h \in live, h2 \in live :
        /\ Len(store) = 2
        /\ HeldBy(store[2]["id"], h)
        /\ HeldBy(store[1]["id"], h2)
        /\ Deleted(h).ret = TRUE
        /\ Len(Persisted(Deleted(h))) = 1
        /\ ~IsMessageVisible(Persisted(Deleted(h))[1], now)

(* ---- reads ---- *)
(* A call with outcome r generates no handle and leaves the file as it is. *)
Unobservable(r) ==
    /\ ~r.write
    /\ r.gen = <<>>
    /\ Persisted(r) = store
(* The call made after a call with outcome r returns and writes what it     *)
(* would without it.                                                        *)
SameAfter(r) ==
    \A o \in LoopOps :
        ApplyLoopOp(o, ReadQueue(Persisted(r), now), now, Len(issued) + Len(r.gen))
            = ApplyLoopOp(o, Loaded, now, Len(issued))

(* C28: get_messages, get_message, has_message, check_existence and         *)
(* get_queue_info do not write: the file after the call is the file before  *)
(* it, also when the load swept an expired deadline in the copy the call    *)
(* works on; and after get_messages (through which get_message,             *)
(* has_message and check_existence load the file) or get_queue_info, the    *)
(* call that follows returns and writes the same as if the read had not     *)
(* been made.                                                               *)
C28_ReadsDoNotWrite ==
    /\ \A limit \in {None} \cup MaxArgs : Unobservable(GetMessagesOp(Loaded, limit))
    /\ \A id \in Ids :
           /\ Unobservable(GetMessageOp(Loaded, id))
           /\ Unobservable(HasMessageOp(Loaded, id))
    /\ \A item_ids \in IdLists : Unobservable(CheckExistenceOp(Loaded, item_ids))
    /\ Unobservable(GetQueueInfoOp(Loaded, now))
    /\ SameAfter(GetMessagesOp(Loaded, None))
    /\ SameAfter(GetQueueInfoOp(Loaded, now))

(* The file holds a deadline that has passed: get_messages and              *)
(* get_queue_info work on a swept copy that shows the message visible, and  *)
(* the file keeps the deadline.                                             *)
C28_Witness ==
    /\ Len(store) = 2
    /\ store[1]["invisible_until"] # None
    /\ store[1]["invisible_until"] > store[1]["first_received_at"]
    /\ now >= store[1]["invisible_until"]
    /\ GetMessagesOp(Loaded, None).ret[1]["invisible_until"] = None
    /\ Info.visible_messages = 2
    /\ Persisted(GetMessagesOp(Loaded, None))[1]["invisible_until"] # None

(* ---- the record of receives ---- *)
(* The stored messages receive_messages(only_new=True) takes as new. *)
NewIds == {store[i]["id"] : i \in {j \in DOMAIN store : store[j]["first_received_at"] = None}}

(* C29: a stored message has receive_count 0 exactly when it has no         *)
(* first_received_at; never_received of get_queue_info is the number of     *)
(* messages without first_received_at, which are the messages a receive     *)
(* with only_new returns, up to max_messages; and a stored message whose    *)
(* invisible_until is later than now has receive_count >= 1 and carries a   *)
(* receipt handle that a receive generated.                                 *)
C29_ReceivedHistory ==
    /\ \A i \in DOMAIN store :
           LET m == store[i]
           IN  /\ (m["receive_count"] = 0) <=> (m["first_received_at"] = None)
               /\ (m["invisible_until"] # None /\ m["invisible_until"] > now) =>
                      /\ m["receive_count"] >= 1
                      /\ Has(m, "current_receipt_handle")
                      /\ m["current_receipt_handle"] \in live
    /\ Info.never_received = Cardinality(NewIds)
    /\ \A k \in MaxArgs, vt \in Timeouts, d \in BOOLEAN :
           LET r == Received(k, vt, d, TRUE)
           IN  /\ RetIds(r) \subseteq NewIds
               /\ Len(r.ret) = Min(k, Cardinality(NewIds))

(* Of two stored messages one was received and is in flight, the other was  *)
(* never received: never_received is 1 and a receive of new messages        *)
(* returns the second only.                                                 *)
C29_Witness ==
    /\ Len(store) = 2
    /\ store[1]["receive_count"] >= 1
    /\ store[1]["invisible_until"] # None /\ store[1]["invisible_until"] > now
    /\ store[2]["receive_count"] = 0
    /\ Info.never_received = 1
    /\ RetIds(Received(MaxMessages, 1, FALSE, TRUE)) = {store[2]["id"]}

====
